---------------------------- MODULE Spec2Model ----------------------------
(***************************************************************************)
(* Non-wear time detection after Choi et al. (2011), as implemented by     *)
(* choi_2011_calculate_non_wear_time in                                    *)
(* src/algorithms/non_wear_time/choi_2011.py.                              *)
(*                                                                         *)
(* The function is modelled as a sequential program: one action for the    *)
(* length check and the allocation of the result vector, one action per    *)
(* iteration of the scan loop, one action per row of the loop that turns   *)
(* the ranges into the non-wear vector, and the return.  Indices are the   *)
(* 0-based indices of the Python code; the TLA+ sequences are 1-based, so  *)
(* element i of the array data is data[i + 1].                             *)
(***************************************************************************)
EXTENDS Integers, Sequences, FiniteSets

VARIABLES
    data,               \* the counts of axis 1, one per epoch
    activity_threshold, \* parameter, documented as the count considered zero
    min_period_len,     \* parameter
    spike_tolerance,    \* parameter
    min_window_len,     \* parameter
    pc,                 \* position in the function body
    logged,             \* TRUE when the length check logged an error
    non_wear_vector,    \* the result vector
    paxn,               \* index of the next epoch of the scan loop
    reset,
    stopped,
    start,
    window_2_invalid,
    strt_nw,
    end_nw,
    cnt_non_zero,
    ranges,             \* accepted sequences, each <<strt_nw, end_nw>>
    row                 \* number of rows of ranges already written to the vector

params == <<data, activity_threshold, min_period_len, spike_tolerance, min_window_len>>
locals == <<reset, stopped, start, window_2_invalid, strt_nw, end_nw, cnt_non_zero, ranges>>
vars == <<params, pc, logged, non_wear_vector, paxn, locals, row>>

---------------------------------------------------------------------------
(* Bounds of the enumerated inputs *)

MaxLen == 6
MaxCount == 1
MaxThreshold == 1
MaxPeriodLen == 3
MaxSpikeTolerance == 2
MaxWindowLen == 2

(* Defaults of the parameters, line 14 *)

DefaultActivityThreshold == 0
DefaultMinPeriodLen == 90
DefaultSpikeTolerance == 2
DefaultMinWindowLen == 30

---------------------------------------------------------------------------
(* numpy and Python primitives *)

Min(a, b) == IF a < b THEN a ELSE b

Max(a, b) == IF a > b THEN a ELSE b

\* data[i] for a valid non-negative index i
At(d, i) == d[i + 1]

\* the position a slice bound k denotes in an array of length n: a negative
\* bound counts from the end, and the result is clipped to 0 .. n
PyIndex(k, n) == IF k < 0 THEN Max(k + n, 0) ELSE Min(k, n)

\* d[lo:hi]
Slice(d, lo, hi) ==
    LET a == PyIndex(lo, Len(d))
        b == PyIndex(hi, Len(d))
    IN  [j \in 1 .. Max(b - a, 0) |-> d[a + j]]

\* (s > 0).sum()
CountPositive(s) == Cardinality({j \in DOMAIN s : s[j] > 0})

\* data - 1, the array with one subtracted from every element
DataMinusOne(d) == [j \in DOMAIN d |-> d[j] - 1]

\* np.ones((n, 1))
Ones(n) == [j \in 1 .. n |-> 1]

\* v[lo:hi] = 0
ZeroSliceIncl(v, lo, hi) ==
    LET a == PyIndex(lo, Len(v))
        b == PyIndex(hi + 1, Len(v))
    IN  [j \in 1 .. Len(v) |-> IF a < j /\ j <= b THEN 0 ELSE v[j]]

ZeroSlice(v, lo, hi) ==
    LET a == PyIndex(lo, Len(v))
        b == PyIndex(hi, Len(v))
    IN  [j \in 1 .. Len(v) |-> IF a < j /\ j <= b THEN 0 ELSE v[j]]

---------------------------------------------------------------------------
(* The body of the scan loop, statement by statement, on the record s of   *)
(* the loop's variables.                                                   *)

\* the literal of line 156
SpikeLimit == 3

Locals ==
    [reset |-> reset, stopped |-> stopped, start |-> start,
     window_2_invalid |-> window_2_invalid, strt_nw |-> strt_nw,
     end_nw |-> end_nw, cnt_non_zero |-> cnt_non_zero, ranges |-> ranges]

\* lines 75-89
InitialLocals ==
    [reset |-> FALSE, stopped |-> FALSE, start |-> FALSE,
     window_2_invalid |-> FALSE, strt_nw |-> 0,
     end_nw |-> 0, cnt_non_zero |-> 0, ranges |-> <<>>]

\* lines 102-110
ResetCountersKeepStart(s) ==
    IF s.reset \/ s.stopped
    THEN [s EXCEPT !.strt_nw = 0, !.end_nw = 0, !.reset = FALSE,
                   !.stopped = FALSE, !.window_2_invalid = FALSE,
                   !.cnt_non_zero = 0]
    ELSE s

ResetCountersKeepCount(s) ==
    IF s.reset \/ s.stopped
    THEN [s EXCEPT !.strt_nw = 0, !.end_nw = 0, !.start = FALSE,
                   !.reset = FALSE, !.stopped = FALSE,
                   !.window_2_invalid = FALSE]
    ELSE s

ResetCounters(s) ==
    IF s.reset \/ s.stopped
    THEN [s EXCEPT !.strt_nw = 0, !.end_nw = 0, !.start = FALSE,
                   !.reset = FALSE, !.stopped = FALSE,
                   !.window_2_invalid = FALSE, !.cnt_non_zero = 0]
    ELSE s

\* lines 113-118
StartPeriodAnyCount(s, i, paxinten) ==
    IF s.start = FALSE
    THEN [s EXCEPT !.strt_nw = i, !.start = TRUE]
    ELSE s

StartPeriodNonNegative(s, i, paxinten) ==
    IF paxinten >= 0 /\ s.start = FALSE
    THEN [s EXCEPT !.strt_nw = i, !.start = TRUE]
    ELSE s

StartPeriod(s, i, paxinten) ==
    IF paxinten = 0 /\ s.start = FALSE
    THEN [s EXCEPT !.strt_nw = i, !.start = TRUE]
    ELSE s

\* lines 124-127
CountSpike(s, paxinten) ==
    IF paxinten > 0 THEN [s EXCEPT !.cnt_non_zero = @ + 1] ELSE s

\* line 134
UpstreamSkipOneMore(d, i, tolerance, window) ==
    Slice(d, i + tolerance + 1, i + window + 1)

Upstream(d, i, tolerance, window) == Slice(d, i + tolerance, i + window + 1)

\* line 141
Downstream(d, i, window) ==
    Slice(d, IF i - window > 0 THEN i - window ELSE 0, i - 1)

\* lines 131-149
CheckWindowsDownstreamOnly(s, d, i, paxinten, tolerance, window) ==
    IF paxinten > 0
    THEN LET w == s.window_2_invalid
                    \/ CountPositive(Downstream(d, i, window)) > 0
         IN  [s EXCEPT !.window_2_invalid = w,
                       !.reset = IF w THEN TRUE ELSE @]
    ELSE s

CheckWindowsNoReset(s, d, i, paxinten, tolerance, window) ==
    IF paxinten > 0
    THEN LET w == \/ s.window_2_invalid
                   \/ CountPositive(Upstream(d, i, tolerance, window)) > 0
                   \/ CountPositive(Downstream(d, i, window)) > 0
         IN  [s EXCEPT !.window_2_invalid = w]
    ELSE s

CheckWindows(s, d, i, paxinten, tolerance, window) ==
    IF paxinten > 0
    THEN LET w == \/ s.window_2_invalid
                   \/ CountPositive(Upstream(d, i, tolerance, window)) > 0
                   \/ CountPositive(Downstream(d, i, window)) > 0
         IN  [s EXCEPT !.window_2_invalid = w,
                       !.reset = IF w THEN TRUE ELSE @]
    ELSE s

\* lines 152-153
ClearSpikesNever(s, paxinten) == s

ClearSpikes(s, paxinten) ==
    IF paxinten = 0 THEN [s EXCEPT !.cnt_non_zero = 0] ELSE s

\* lines 156-167
EndPeriodOffByOne(s, d, i, period) ==
    IF s.cnt_non_zero = SpikeLimit \/ s.window_2_invalid
           \/ i = Len(DataMinusOne(d))
    THEN IF Len(Slice(d, s.strt_nw, i)) + 1 < period
         THEN [s EXCEPT !.end_nw = i, !.reset = TRUE]
         ELSE [s EXCEPT !.end_nw = i, !.stopped = TRUE]
    ELSE s

EndPeriodInverted(s, d, i, period) ==
    IF s.cnt_non_zero = SpikeLimit \/ s.window_2_invalid
           \/ i = Len(DataMinusOne(d))
    THEN IF Len(Slice(d, s.strt_nw, i)) > period
         THEN [s EXCEPT !.end_nw = i, !.reset = TRUE]
         ELSE [s EXCEPT !.end_nw = i, !.stopped = TRUE]
    ELSE s

EndPeriod(s, d, i, period) ==
    IF s.cnt_non_zero = SpikeLimit \/ s.window_2_invalid
           \/ i = Len(DataMinusOne(d))
    THEN IF Len(Slice(d, s.strt_nw, i)) < period
         THEN [s EXCEPT !.end_nw = i, !.reset = TRUE]
         ELSE [s EXCEPT !.end_nw = i, !.stopped = TRUE]
    ELSE s

\* lines 170-172
AppendRange(s) ==
    IF s.stopped
    THEN [s EXCEPT !.ranges = Append(@, <<s.strt_nw, s.end_nw>>)]
    ELSE s

\* lines 99-172, one iteration for the index i
LoopBody(s, d, i, period, tolerance, window) ==
    LET paxinten == At(d, i)
        s1 == ResetCounters(s)
        s2 == StartPeriod(s1, i, paxinten)
        s3 == CountSpike(s2, paxinten)
        s4 == CheckWindows(s3, d, i, paxinten, tolerance, window)
        s5 == ClearSpikes(s4, paxinten)
        s6 == EndPeriod(s5, d, i, period)
    IN  AppendRange(IF s2.start THEN s6 ELSE s2)

---------------------------------------------------------------------------
(* Inputs *)

Zeros(n) == [j \in 1 .. n |-> 0]

\* the scan tells a count of 0 from a count above 0 and nothing else
CountValues == {0, MaxCount}

SeqsUpTo(S, n) == UNION {[1 .. m -> S] : m \in 0 .. n}

Config(threshold, period, tolerance, window) ==
    [activity_threshold |-> threshold, min_period_len |-> period,
     spike_tolerance |-> tolerance, min_window_len |-> window]

DefaultConfig ==
    Config(DefaultActivityThreshold, DefaultMinPeriodLen,
           DefaultSpikeTolerance, DefaultMinWindowLen)

SmallConfigs ==
    {Config(t, p, k, w) : t \in 0 .. MaxThreshold, p \in 0 .. MaxPeriodLen,
                          k \in 0 .. MaxSpikeTolerance, w \in 0 .. MaxWindowLen}

\* a zero run with one spike in the middle
ToleratedSpikeData == Zeros(100) \o <<50>> \o Zeros(100)

\* two spikes five epochs apart
TwoSpikesData == Zeros(40) \o <<50>> \o Zeros(5) \o <<50>> \o Zeros(40)

\* a zero run shorter than the default minimum period
ShortRunData == Zeros(50)

\* counts at and above an activity threshold of 1
ThresholdData == <<0, 2, 1, 0, 2, 2>>

ThresholdConfig == Config(1, 1, 1, 1)

Inputs ==
    {[data |-> d, config |-> c] : d \in SeqsUpTo(CountValues, MaxLen),
                                  c \in SmallConfigs}
    \cup {[data |-> d, config |-> DefaultConfig] :
              d \in {ToleratedSpikeData, TwoSpikesData, ShortRunData}}
    \cup {[data |-> ThresholdData, config |-> ThresholdConfig]}

---------------------------------------------------------------------------
(* The function as a state machine *)

Init ==
    /\ \E inp \in Inputs :
          /\ data = inp.data
          /\ activity_threshold = inp.config.activity_threshold
          /\ min_period_len = inp.config.min_period_len
          /\ spike_tolerance = inp.config.spike_tolerance
          /\ min_window_len = inp.config.min_window_len
    /\ pc = "check"
    /\ logged = FALSE
    /\ non_wear_vector = <<>>
    /\ paxn = 0
    /\ reset = InitialLocals.reset
    /\ stopped = InitialLocals.stopped
    /\ start = InitialLocals.start
    /\ window_2_invalid = InitialLocals.window_2_invalid
    /\ strt_nw = InitialLocals.strt_nw
    /\ end_nw = InitialLocals.end_nw
    /\ cnt_non_zero = InitialLocals.cnt_non_zero
    /\ ranges = InitialLocals.ranges
    /\ row = 0

\* lines 52-56: the length check only logs; the vector of ones is created
CheckLength ==
    /\ pc = "check"
    /\ logged' = (Len(data) < min_period_len)
    /\ non_wear_vector' = Ones(Len(data))
    /\ pc' = "scan"
    /\ UNCHANGED <<params, paxn, locals, row>>

\* lines 96-172: one iteration of the scan loop
ScanEpoch ==
    /\ pc = "scan"
    /\ paxn < Len(data)
    /\ LET s == LoopBody(Locals, data, paxn, min_period_len,
                         spike_tolerance, min_window_len)
       IN  /\ reset' = s.reset
           /\ stopped' = s.stopped
           /\ start' = s.start
           /\ window_2_invalid' = s.window_2_invalid
           /\ strt_nw' = s.strt_nw
           /\ end_nw' = s.end_nw
           /\ cnt_non_zero' = s.cnt_non_zero
           /\ ranges' = s.ranges
    /\ paxn' = paxn + 1
    /\ UNCHANGED <<params, pc, logged, non_wear_vector, row>>

\* line 96: the range of the loop is exhausted
ScanDone ==
    /\ pc = "scan"
    /\ paxn = Len(data)
    /\ pc' = "mask"
    /\ UNCHANGED <<params, logged, non_wear_vector, paxn, locals, row>>

\* lines 176-185: one row of ranges is written into the vector
MaskRow ==
    /\ pc = "mask"
    /\ row < Len(ranges)
    /\ non_wear_vector' =
           ZeroSlice(non_wear_vector, ranges[row + 1][1], ranges[row + 1][2])
    /\ row' = row + 1
    /\ UNCHANGED <<params, pc, logged, paxn, locals>>

\* line 187
Return ==
    /\ pc = "mask"
    /\ row = Len(ranges)
    /\ pc' = "done"
    /\ UNCHANGED <<params, logged, non_wear_vector, paxn, locals, row>>

---------------------------------------------------------------------------
(* The function under the default spike tolerance and window length, on    *)
(* short inputs and on inputs whose zero runs are about as long as the     *)
(* window.                                                                 *)

MaxSpikeRun == 3

Spikes(n) == [j \in 1 .. n |-> 1]

\* zero runs z1, z2, z3 separated by spike runs k1, k2 and ended by a spike
BlockData(z1, k1, z2, k2, z3) ==
    Zeros(z1) \o Spikes(k1) \o Zeros(z2) \o Spikes(k2) \o Zeros(z3) \o <<1>>

ZeroRunLens == {1, DefaultMinWindowLen - 1, DefaultMinWindowLen}

DefaultWindowInputs ==
    {[data |-> d,
      config |-> Config(DefaultActivityThreshold, p,
                        DefaultSpikeTolerance, DefaultMinWindowLen)] :
         d \in SeqsUpTo(CountValues, MaxLen), p \in 0 .. MaxPeriodLen}
    \cup {[data |-> BlockData(z[1], k[1], z[2], k[2], z[3]),
           config |-> Config(DefaultActivityThreshold, p,
                             DefaultSpikeTolerance, DefaultMinWindowLen)] :
              z \in [1 .. 3 -> ZeroRunLens],
              k \in [1 .. 2 -> 1 .. MaxSpikeRun],
              p \in {MaxPeriodLen, 2 * DefaultMinWindowLen}}

InitDefaultWindows ==
    /\ \E inp \in DefaultWindowInputs :
          /\ data = inp.data
          /\ activity_threshold = inp.config.activity_threshold
          /\ min_period_len = inp.config.min_period_len
          /\ spike_tolerance = inp.config.spike_tolerance
          /\ min_window_len = inp.config.min_window_len
    /\ pc = "check"
    /\ logged = FALSE
    /\ non_wear_vector = <<>>
    /\ paxn = 0
    /\ reset = InitialLocals.reset
    /\ stopped = InitialLocals.stopped
    /\ start = InitialLocals.start
    /\ window_2_invalid = InitialLocals.window_2_invalid
    /\ strt_nw = InitialLocals.strt_nw
    /\ end_nw = InitialLocals.end_nw
    /\ cnt_non_zero = InitialLocals.cnt_non_zero
    /\ ranges = InitialLocals.ranges
    /\ row = 0

Next == CheckLength \/ ScanEpoch \/ ScanDone \/ MaskRow \/ Return

Spec == Init /\ [][Next]_vars

SpecDefaultWindows == InitDefaultWindows /\ [][Next]_vars

TypeOK ==
    /\ pc \in {"check", "scan", "mask", "done"}
    /\ paxn \in 0 .. Len(data)
    /\ row \in 0 .. Len(ranges)
    /\ reset \in BOOLEAN /\ stopped \in BOOLEAN /\ start \in BOOLEAN
    /\ window_2_invalid \in BOOLEAN /\ logged \in BOOLEAN
    /\ strt_nw \in 0 .. Len(data) /\ end_nw \in 0 .. Len(data)
    /\ cnt_non_zero \in 0 .. SpikeLimit

---------------------------------------------------------------------------
(* Vocabulary of the properties *)

N == Len(data)

Indices == 0 .. N - 1

\* index k lies in the half-open range of the accepted sequence r
Covers(r, k) == r[1] <= k /\ k < r[2]

Accepted == {ranges[n] : n \in 1 .. Len(ranges)}

IsDefaultConfig ==
    /\ activity_threshold = DefaultActivityThreshold
    /\ min_period_len = DefaultMinPeriodLen
    /\ spike_tolerance = DefaultSpikeTolerance
    /\ min_window_len = DefaultMinWindowLen

\* the epochs 0 .. paxn - 1 have been scanned; the last one is paxn - 1
Scanned == pc = "scan" /\ paxn > 0

AllOnes == non_wear_vector = Ones(N)

---------------------------------------------------------------------------
(* C1, as claimed: for zero(100) + [50] + zero(100) under the default       *)
(* spike tolerance, window and period the function returns with exactly    *)
(* one accepted interval and all 201 entries of the vector are 0.          *)
ToleratedSpikeOneInterval ==
    (pc = "done" /\ data = ToleratedSpikeData /\ IsDefaultConfig)
        => /\ Len(ranges) = 1
           /\ \A k \in 1 .. 201 : non_wear_vector[k] = 0

(* C2, as claimed: the scan classifies by activity_threshold; an epoch     *)
(* with count <= activity_threshold is a zero, so after it is scanned a    *)
(* candidate is open and the spike counter is 0, and an epoch with count   *)
(* above the threshold never opens a candidate.                            *)
ThresholdClassifiesEpochs ==
    Scanned =>
        /\ At(data, paxn - 1) <= activity_threshold
               => start /\ cnt_non_zero = 0 /\ ~window_2_invalid
        /\ (start /\ strt_nw = paxn - 1)
               => At(data, paxn - 1) <= activity_threshold

(* C3: with min_period_len >= 1 every accepted interval has end > start    *)
(* and end - start >= min_period_len, a candidate closed below that length *)
(* is not recorded, and 50 zero epochs under the default configuration     *)
(* give no interval and an all-ones vector.                                *)
AcceptedLongEnough ==
    /\ min_period_len >= 1 =>
           /\ \A r \in Accepted : r[2] > r[1] /\ r[2] - r[1] >= min_period_len
           /\ (reset /\ ~stopped /\ end_nw - strt_nw < min_period_len)
                  => \A r \in Accepted : r # <<strt_nw, end_nw>>
    /\ (data = ShortRunData /\ IsDefaultConfig)
           => ranges = <<>> /\ (pc = "done" => AllOnes)

AcceptedLongEnoughWitness ==
    /\ pc = "done"
    /\ min_period_len >= 2
    /\ Len(ranges) >= 1
    /\ reset /\ ~stopped /\ end_nw - strt_nw < min_period_len

(* C4: at every point of the scan the accepted intervals, in the order of  *)
(* their recording, are pairwise disjoint and have strictly increasing     *)
(* start indices.                                                          *)
NonOverlap ==
    \A a, b \in 1 .. Len(ranges) :
        a < b => /\ ranges[a][1] < ranges[b][1]
                 /\ ranges[a][2] <= ranges[b][1]

NonOverlapWitness == pc = "scan" /\ Len(ranges) >= 2

(* C5: every index of an accepted interval holds a zero count or a spike   *)
(* whose windows are clean: the in-range epochs j+spike_tolerance ..       *)
(* j+min_window_len and max(0, j-min_window_len) .. j-2 are all zero; the  *)
(* first index of the interval holds a zero count.                         *)
ValidatedSpike(j) ==
    /\ \A k \in (j + spike_tolerance) .. (j + min_window_len) :
           k \in Indices => At(data, k) = 0
    /\ \A k \in Max(0, j - min_window_len) .. (j - 2) :
           k \in Indices => At(data, k) = 0

IntervalContent ==
    \A r \in Accepted :
        /\ At(data, r[1]) = 0
        /\ \A j \in r[1] .. (r[2] - 1) : At(data, j) = 0 \/ ValidatedSpike(j)

IntervalContentWitness ==
    \E r \in Accepted : \E j \in r[1] .. (r[2] - 1) :
        /\ At(data, j) > 0
        /\ j + spike_tolerance <= j + min_window_len
        /\ j + spike_tolerance \in Indices
        /\ j - 2 \in Indices

(* C6: the returned vector has one entry per epoch, each 0 or 1, and an    *)
(* entry is 0 exactly when its index lies in the half-open range of an     *)
(* accepted interval; until the ranges are written it is all ones.         *)
MaskDerivation ==
    /\ pc = "scan" => AllOnes
    /\ pc = "done" =>
           /\ Len(non_wear_vector) = N
           /\ \A k \in Indices :
                  /\ non_wear_vector[k + 1] \in {0, 1}
                  /\ non_wear_vector[k + 1] = 0
                         <=> \E r \in Accepted : Covers(r, k)

MaskDerivationWitness ==
    /\ pc = "done"
    /\ Len(ranges) >= 2
    /\ \E k \in Indices : non_wear_vector[k + 1] = 1

(* C7, as claimed: for zero(40) + [50] + zero(5) + [50] + zero(40) under   *)
(* the default configuration the candidate opened at index 0 stays open    *)
(* past the first spike (index 40) and is invalidated and discarded at the *)
(* second spike (index 46); no interval is recorded.                       *)
TwoSpikesInvalidatedAtSecond ==
    (data = TwoSpikesData /\ IsDefaultConfig) =>
        /\ ranges = <<>>
        /\ (pc = "scan" /\ paxn \in 1 .. 46)
               => start /\ strt_nw = 0 /\ ~window_2_invalid /\ ~reset
        /\ (pc = "scan" /\ paxn = 47)
               => strt_nw = 0 /\ window_2_invalid /\ reset /\ ~stopped

(* C7, amended: the candidate opened at index 0 is invalidated already at  *)
(* the first spike (index 40), because the upstream check finds the second *)
(* spike within the 30 epochs after it, and is discarded; the candidate    *)
(* opened at index 41 is invalidated at the second spike (index 46),       *)
(* because the downstream check finds the first spike within the 30 epochs *)
(* before it, and is discarded; no interval is recorded.                   *)
TwoSpikesInvalidatedAtFirst ==
    (data = TwoSpikesData /\ IsDefaultConfig) =>
        /\ ranges = <<>>
        /\ (pc = "scan" /\ paxn \in 1 .. 40)
               => start /\ strt_nw = 0 /\ ~window_2_invalid /\ ~reset
        /\ (pc = "scan" /\ paxn = 41)
               => /\ strt_nw = 0 /\ end_nw = 40
                  /\ window_2_invalid /\ reset /\ ~stopped
                  /\ CountPositive(Upstream(data, 40, spike_tolerance,
                                            min_window_len)) > 0
                  /\ CountPositive(Downstream(data, 40, min_window_len)) = 0
        /\ (pc = "scan" /\ paxn \in 42 .. 46)
               => start /\ strt_nw = 41 /\ ~window_2_invalid /\ ~reset
        /\ (pc = "scan" /\ paxn = 47)
               => /\ strt_nw = 41 /\ end_nw = 46
                  /\ window_2_invalid /\ reset /\ ~stopped
                  /\ CountPositive(Upstream(data, 46, spike_tolerance,
                                            min_window_len)) = 0
                  /\ CountPositive(Downstream(data, 46, min_window_len)) > 0

TwoSpikesWitness ==
    /\ data = TwoSpikesData /\ IsDefaultConfig
    /\ pc = "scan" /\ paxn = 47 /\ reset /\ window_2_invalid

(* C8, as claimed: no accepted interval contains a run of more than        *)
(* spike_tolerance consecutive epochs above the threshold.                 *)
SpikeRunsBounded ==
    \A r \in Accepted : \A a, b \in r[1] .. (r[2] - 1) :
        (a <= b /\ \A k \in a .. b : At(data, k) > activity_threshold)
            => b - a + 1 <= spike_tolerance

(* C9: when every epoch is above the threshold no candidate is opened, no  *)
(* interval is accepted and the vector is all ones; an open candidate      *)
(* always began at an epoch whose count is zero.                           *)
FullWear ==
    /\ (\A k \in Indices : At(data, k) > activity_threshold)
           => /\ ~start
              /\ ranges = <<>>
              /\ pc # "check" => AllOnes
    /\ start => At(data, strt_nw) = 0

FullWearWitness ==
    /\ pc = "done"
    /\ N >= 2
    /\ \A k \in Indices : At(data, k) > activity_threshold

(* C10: when the input is shorter than min_period_len the scan still runs: *)
(* the error is only logged, no interval is accepted at any point and the  *)
(* vector has one entry per epoch, all ones.                               *)
InsufficientData ==
    N < min_period_len =>
        /\ ranges = <<>>
        /\ ~stopped
        /\ pc # "check" => logged /\ AllOnes

InsufficientDataWitness ==
    /\ pc = "done"
    /\ N < min_period_len
    /\ reset /\ end_nw > strt_nw

\* a step of the scan loop: epoch paxn is scanned, primed variables hold
\* the state at the end of the iteration
ScanStep == pc = "scan" /\ paxn' = paxn + 1

(* C11, as claimed: whenever a window check fails at the scanned epoch the *)
(* open candidate is discarded: no interval is recorded for it, whatever   *)
(* its length, and only the reset is scheduled.                            *)
WindowFailureDiscards ==
    (Scanned /\ window_2_invalid) => reset /\ ~stopped

(* C11, amended: whenever a window check fails at a spike epoch i the open *)
(* candidate is closed at i and a reset is scheduled for epoch i+1; the    *)
(* interval [interval_start, i) is recorded when i - interval_start >=     *)
(* min_period_len, and nothing is recorded when it is shorter.             *)
WindowFailureCloses ==
    [][(ScanStep /\ window_2_invalid') =>
          /\ At(data, paxn) > 0
          /\ reset' /\ end_nw' = paxn
          /\ IF paxn - strt_nw' >= min_period_len
             THEN stopped' /\ ranges' = Append(ranges, <<strt_nw', paxn>>)
             ELSE ~stopped' /\ ranges' = ranges]_vars

WindowFailureClosesWitness ==
    /\ Scanned /\ window_2_invalid /\ stopped
    /\ min_period_len >= 2
    /\ ranges[Len(ranges)] = <<strt_nw, paxn - 1>>

(* C12, as claimed: when the final index N-1 is scanned while a candidate  *)
(* is open, the candidate is closed at that step and recorded when         *)
(* N-1 - interval_start >= min_period_len; a zero run of at least          *)
(* min_period_len + 1 epochs that reaches the end of the data is reported  *)
(* as non-wear.                                                            *)
EndOfSequenceCloses ==
    /\ (pc = "scan" /\ paxn = N /\ N > 0 /\ start) =>
           /\ end_nw = N - 1
           /\ reset \/ stopped
           /\ stopped <=> (N - 1 - strt_nw >= min_period_len)
    /\ (pc = "done" /\ N >= min_period_len + 1 /\ data = Zeros(N)) =>
           \E k \in Indices : non_wear_vector[k + 1] = 0

(* C13, as claimed: at a spike epoch i scanned while a candidate is open,  *)
(* window_invalid is set if and only if some epoch above the threshold has *)
(* its index in i+spike_tolerance .. i+min_window_len or in                *)
(* max(0, i-min_window_len) .. i-2, both restricted to the indices         *)
(* 0 .. N-1; the part of a range outside the sequence counts as empty.     *)
WindowIndices(i) ==
    (((i + spike_tolerance) .. (i + min_window_len))
         \cup (Max(0, i - min_window_len) .. (i - 2))) \cap Indices

WindowRanges ==
    (Scanned /\ start /\ At(data, paxn - 1) > activity_threshold) =>
        (window_2_invalid
             <=> \E k \in WindowIndices(paxn - 1) :
                     At(data, k) > activity_threshold)

\* the same statement for the counts the scan compares with: above 0
WindowRangesAboveZero ==
    (Scanned /\ start /\ At(data, paxn - 1) > 0) =>
        (window_2_invalid
             <=> \E k \in WindowIndices(paxn - 1) : At(data, k) > 0)

(* C14: if a candidate was closed at epoch i, the per-candidate state is   *)
(* cleared before epoch i+1 is examined: when the count of epoch i+1 is    *)
(* zero it opens a new candidate with interval_start = i+1, and otherwise  *)
(* the iteration ends with no candidate, interval_start 0, the spike       *)
(* counter 0 and no flag set; a candidate is opened only when none is      *)
(* open, so interval_start does not change while a candidate is open.      *)
ResetThenReopen ==
    [][ScanStep =>
          /\ (reset \/ stopped) =>
                 /\ cnt_non_zero' = 0
                 /\ ~window_2_invalid' /\ ~reset' /\ ~stopped'
                 /\ end_nw' = 0
                 /\ ranges' = ranges
                 /\ IF At(data, paxn) = 0
                    THEN start' /\ strt_nw' = paxn
                    ELSE ~start' /\ strt_nw' = 0
          /\ (start /\ ~reset /\ ~stopped) =>
                 start' /\ strt_nw' = strt_nw
          /\ (start' /\ strt_nw' = paxn) =>
                 (At(data, paxn) = 0 /\ (~start \/ reset \/ stopped))]_vars

\* a candidate has been closed with a spike counted, and the next epoch,
\* a spike too, has been scanned
ResetThenReopenWitness ==
    /\ Scanned /\ paxn >= 3
    /\ At(data, paxn - 1) > 0 /\ At(data, paxn - 2) > 0
    /\ ~start /\ ranges # <<>>

\* the number of consecutive epochs above the bound that end at index i
\* and are not before index from
RECURSIVE RunAbove(_, _, _)
RunAbove(i, from, bound) ==
    IF i < from \/ At(data, i) <= bound
    THEN 0
    ELSE 1 + RunAbove(i - 1, from, bound)

(* C15, as claimed: at the end of every loop iteration the spike counter   *)
(* is between 0 and 3; while a candidate is open it equals the number of   *)
(* consecutive above-threshold epochs ending at the current index since    *)
(* the candidate opened; the candidate is closed at the step where the     *)
(* counter is 3, whatever spike_tolerance is.                              *)
SpikeCounter ==
    Scanned =>
        /\ cnt_non_zero \in 0 .. 3
        /\ start => cnt_non_zero
                        = RunAbove(paxn - 1, strt_nw, activity_threshold)
        /\ cnt_non_zero = 3 => (reset \/ stopped) /\ end_nw = paxn - 1

\* the same statement for the counts the scan compares with: above 0
SpikeCounterAboveZero ==
    Scanned =>
        /\ cnt_non_zero \in 0 .. 3
        /\ start => cnt_non_zero = RunAbove(paxn - 1, strt_nw, 0)
        /\ cnt_non_zero = 3 => (reset \/ stopped) /\ end_nw = paxn - 1

(* C16, as claimed: for every accepted interval [start, end) the epoch at  *)
(* index end exists, is above the threshold and is covered by no accepted  *)
(* interval, so its entry of the returned vector is 1; two consecutive     *)
(* accepted intervals are never adjacent.                                  *)
ClosingEpochWorn ==
    /\ \A r \in Accepted :
           /\ r[2] <= N - 1
           /\ At(data, r[2]) > activity_threshold
           /\ \A q \in Accepted : ~Covers(q, r[2])
           /\ pc = "done" => non_wear_vector[r[2] + 1] = 1
    /\ \A a \in 1 .. Len(ranges) - 1 : ranges[a][2] < ranges[a + 1][1]

\* the same statement for the counts the scan compares with: above 0
ClosingEpochWornAboveZero ==
    /\ \A r \in Accepted :
           /\ r[2] <= N - 1
           /\ At(data, r[2]) > 0
           /\ \A q \in Accepted : ~Covers(q, r[2])
           /\ pc = "done" => non_wear_vector[r[2] + 1] = 1
    /\ \A a \in 1 .. Len(ranges) - 1 : ranges[a][2] < ranges[a + 1][1]

IsDefaultWindows ==
    /\ spike_tolerance = DefaultSpikeTolerance
    /\ min_window_len = DefaultMinWindowLen

(* C17: under the default spike tolerance and window length, in every      *)
(* state in which the spike counter is 3 the flag window_invalid is set    *)
(* too; no candidate is closed by the three-spikes rule alone, and every   *)
(* accepted interval is recorded at a step where window_invalid is true.   *)
ThreeSpikesSubsumed ==
    IsDefaultWindows =>
        /\ cnt_non_zero = 3 => window_2_invalid
        /\ (Scanned /\ (reset \/ stopped)) => window_2_invalid
        /\ stopped => window_2_invalid /\ ranges # <<>>

\* an interval is recorded at the second of two consecutive spikes
ThreeSpikesSubsumedWitness ==
    /\ IsDefaultWindows
    /\ Scanned /\ stopped /\ window_2_invalid
    /\ cnt_non_zero = 2
    /\ end_nw - strt_nw > DefaultMinWindowLen

(* C18: the window checks run only at indices i >= 1, so the exclusive     *)
(* upper bound i-1 of the downstream slice is never negative, its lower    *)
(* bound max(0, i-min_window_len) never exceeds N-1, and the slice is the  *)
(* plain stretch between the two bounds, never one counted from the end.   *)
DownstreamNeverWraps ==
    (Scanned /\ start /\ At(data, paxn - 1) > 0) =>
        LET i == paxn - 1
            lo == Max(0, i - min_window_len)
        IN  /\ i >= 1
            /\ i - 1 >= 0
            /\ lo <= N - 1
            /\ Downstream(data, i, min_window_len)
                   = [j \in 1 .. Max(i - 1 - lo, 0) |-> At(data, lo + j - 1)]

\* the check runs at index 1, where the slice is data[0:0]
DownstreamNeverWrapsWitness ==
    /\ Scanned /\ paxn = 2 /\ N >= 3
    /\ start /\ At(data, 1) > 0
    /\ min_window_len >= 1

===========================================================================
